---------------------------- MODULE Spec2Model ----------------------------
(***************************************************************************)
(* A model of etl/validate.py: the CSV validator (schema loading, the five *)
(* rule classes, the report and its statistics), the persistence of the    *)
(* report under validation_results/, and the command line's exit codes;    *)
(* and of etl/ingest.py and the admin service, which stage a CSV and ask   *)
(* for its validation.                                                     *)
(*                                                                         *)
(* Text is modelled character by character: a cell of the data frame is a  *)
(* sequence of one-character strings, or NaN (pandas' missing value).      *)
(* A strptime format is a sequence of tokens: a directive ("%Y") or a      *)
(* literal character.                                                      *)
(***************************************************************************)
EXTENDS Integers, Sequences, FiniteSets, TLC

(***************************************************************************)
(* Characters and cells                                                    *)
(***************************************************************************)
DigitChars == <<"0", "1", "2", "3", "4", "5", "6", "7", "8", "9">>
Digit == {DigitChars[i] : i \in 1..10}
LowerChars == {"a","b","c","d","e","f","g","h","i","j","k","l","m",
          "n","o","p","q","r","s","t","u","v","w","x","y","z"}
UpperChars == {"A","B","C","D","E","F","G","H","I","J","K","L","M",
          "N","O","P","Q","R","S","T","U","V","W","X","Y","Z"}
Alpha == LowerChars \cup UpperChars
Space == {" "}

\* pandas' missing value: what read_csv(dtype=str) yields for an empty field.
NaN == <<"NaN">>

DigitVal(ch) == (CHOOSE i \in 1..10 : DigitChars[i] = ch) - 1

\* The decimal digits of a natural number, as a cell.
RECURSIVE NumCell(_)
NumCell(k) ==
    IF k < 10 THEN <<DigitChars[k + 1]>>
    ELSE NumCell(k \div 10) \o <<DigitChars[(k % 10) + 1]>>

\* Two digits, zero padded (k < 100).
TwoDigits(k) == <<DigitChars[(k \div 10) + 1], DigitChars[(k % 10) + 1]>>

\* A Python string literal as a cell is written as a tuple of characters.
RECURSIVE LStrip(_)
LStrip(s) == IF s # <<>> /\ Head(s) \in Space THEN LStrip(Tail(s)) ELSE s

RECURSIVE RStrip(_)
RStrip(s) ==
    IF s # <<>> /\ s[Len(s)] \in Space THEN RStrip(SubSeq(s, 1, Len(s) - 1)) ELSE s

\* str.strip()
Strip(s) == RStrip(LStrip(s))

\* Series.isna()
IsNa(c) == c = NaN

\* Series.str.strip().eq("") : False on NaN
IsBlank(c) == ~IsNa(c) /\ Strip(c) = <<>>

\* Series.astype(str) : NaN is rendered "nan", a string is itself
AsStr(c) == IF IsNa(c) THEN <<"n", "a", "n">> ELSE c

AllIn(s, S) == \A i \in 1..Len(s) : s[i] \in S

(***************************************************************************)
(* Strict format helpers                                                   *)
(***************************************************************************)
EmailLocalChars == Alpha \cup Digit \cup {".", "_", "%", "+", "-"}
EmailDomainChars == Alpha \cup Digit \cup {".", "-"}

\* _EMAIL_RE.match(v): ^[A-Za-z0-9._%+-]+@[A-Za-z0-9.-]+\.[A-Za-z]{2,}$
EmailReMatch(v) ==
    \E a \in 1..Len(v) :
        /\ v[a] = "@"
        /\ a >= 2
        /\ AllIn(SubSeq(v, 1, a - 1), EmailLocalChars)
        /\ \E p \in (a + 2)..Len(v) :
              /\ v[p] = "."
              /\ AllIn(SubSeq(v, a + 1, p - 1), EmailDomainChars)
              /\ Len(v) - p >= 2
              /\ AllIn(SubSeq(v, p + 1, Len(v)), Alpha)

validate_email_strict(value) ==
    IF IsNa(value) THEN FALSE
    ELSE LET v == Strip(value) IN
         IF v = <<>> THEN FALSE ELSE EmailReMatch(v)

\* strptime directives and, for each, the alternatives of its regular
\* expression in the order the regex engine tries them: <<length, kind>>.
Directives == {"%Y", "%m", "%d", "%H", "%M", "%S"}

DirAlts(dir) ==
    CASE dir = "%Y" -> << <<4, "dddd">> >>
      [] dir = "%m" -> << <<2, "1[0-2]">>, <<2, "0[1-9]">>, <<1, "[1-9]">> >>
      [] dir = "%d" -> << <<2, "3[0-1]">>, <<2, "[1-2]d">>, <<2, "0[1-9]">>,
                          <<1, "[1-9]">>, <<2, " [1-9]">> >>
      [] dir = "%H" -> << <<2, "2[0-3]">>, <<2, "[0-1]d">>, <<1, "d">> >>
      [] dir = "%M" -> << <<2, "[0-5]d">>, <<1, "d">> >>
      [] dir = "%S" -> << <<2, "6[0-1]">>, <<2, "[0-5]d">>, <<1, "d">> >>

AltOk(kind, t) ==
    CASE kind = "dddd"   -> AllIn(t, Digit)
      [] kind = "1[0-2]" -> t[1] = "1" /\ t[2] \in {"0", "1", "2"}
      [] kind = "0[1-9]" -> t[1] = "0" /\ t[2] \in Digit \ {"0"}
      [] kind = "[1-9]"  -> t[1] \in Digit \ {"0"}
      [] kind = "3[0-1]" -> t[1] = "3" /\ t[2] \in {"0", "1"}
      [] kind = "[1-2]d" -> t[1] \in {"1", "2"} /\ t[2] \in Digit
      [] kind = " [1-9]" -> t[1] = " " /\ t[2] \in Digit \ {"0"}
      [] kind = "2[0-3]" -> t[1] = "2" /\ t[2] \in {"0", "1", "2", "3"}
      [] kind = "[0-1]d" -> t[1] \in {"0", "1"} /\ t[2] \in Digit
      [] kind = "d"      -> t[1] \in Digit
      [] kind = "[0-5]d" -> t[1] \in {"0", "1", "2", "3", "4", "5"} /\ t[2] \in Digit
      [] kind = "6[0-1]" -> t[1] = "6" /\ t[2] \in {"0", "1"}

RECURSIVE IntOf(_)
IntOf(t) ==
    IF t = <<>> THEN 0
    ELSE LET ch == t[Len(t)] IN
         10 * IntOf(SubSeq(t, 1, Len(t) - 1)) + (IF ch \in Digit THEN DigitVal(ch) ELSE 0)

NoMatch == [matched |-> FALSE]

\* datetime(1900, 1, 1, 0, 0, 0): the fields a format does not set
DefaultFields == [Y |-> 1900, m |-> 1, d |-> 1, H |-> 0, M |-> 0, S |-> 0]

SetField(vals, dir, n) ==
    CASE dir = "%Y" -> [vals EXCEPT !.Y = n]
      [] dir = "%m" -> [vals EXCEPT !.m = n]
      [] dir = "%d" -> [vals EXCEPT !.d = n]
      [] dir = "%H" -> [vals EXCEPT !.H = n]
      [] dir = "%M" -> [vals EXCEPT !.M = n]
      [] dir = "%S" -> [vals EXCEPT !.S = n]

\* format_regex.match(data_string): the first match in backtracking order of
\* the tokens from ti on, at position pos of s.
RECURSIVE RxMatch(_, _, _, _, _)
RECURSIVE RxAlts(_, _, _, _, _, _)
RxMatch(fmt, ti, s, pos, vals) ==
    IF ti > Len(fmt) THEN [matched |-> TRUE, end |-> pos - 1, vals |-> vals]
    ELSE IF fmt[ti] \in Directives THEN RxAlts(fmt, ti, s, pos, vals, 1)
    ELSE IF pos <= Len(s) /\ s[pos] = fmt[ti] THEN RxMatch(fmt, ti + 1, s, pos + 1, vals)
    ELSE NoMatch

RxAlts(fmt, ti, s, pos, vals, ai) ==
    LET alts == DirAlts(fmt[ti]) IN
    IF ai > Len(alts) THEN NoMatch
    ELSE LET n == alts[ai][1]
             t == SubSeq(s, pos, pos + n - 1)
             here == pos + n - 1 <= Len(s) /\ AltOk(alts[ai][2], t)
             rest == IF here
                     THEN RxMatch(fmt, ti + 1, s, pos + n, SetField(vals, fmt[ti], IntOf(t)))
                     ELSE NoMatch
         IN IF rest.matched THEN rest ELSE RxAlts(fmt, ti, s, pos, vals, ai + 1)

\* A format with a directive strptime does not know ("%Q") raises ValueError.
BadFormat(fmt) == \E i \in 1..Len(fmt) : Len(fmt[i]) > 1 /\ fmt[i] \notin Directives

IsLeap(y) == (y % 4 = 0 /\ y % 100 # 0) \/ y % 400 = 0

DaysIn(y, m) ==
    IF m = 2 THEN (IF IsLeap(y) THEN 29 ELSE 28)
    ELSE IF m \in {4, 6, 9, 11} THEN 30 ELSE 31

\* datetime.strptime(v, fmt) returns (TRUE) or raises ValueError (FALSE):
\* bad directive, no match, unconverted data remains, or fields that are
\* no datetime (day out of range for month, year 0, second 60 or 61).
Strptime(v, fmt) ==
    IF BadFormat(fmt) THEN FALSE
    ELSE LET r == RxMatch(fmt, 1, v, 1, DefaultFields) IN
         /\ r.matched
         /\ r.end = Len(v)
         /\ r.vals.Y >= 1
         /\ r.vals.d <= DaysIn(r.vals.Y, r.vals.m)
         /\ r.vals.S <= 59

DefaultDateFmt == <<"%Y", "-", "%m", "-", "%d">>
DefaultTimeFmt == <<"%H", ":", "%M", ":", "%S">>

validate_date_strict(value, fmt) ==
    IF IsNa(value) THEN FALSE
    ELSE LET v == Strip(value) IN
         IF v = <<>> THEN FALSE ELSE Strptime(v, fmt)

validate_time_strict(value, fmt) ==
    IF IsNa(value) THEN FALSE
    ELSE LET v == Strip(value) IN
         IF v = <<>> THEN FALSE ELSE Strptime(v, fmt)

(***************************************************************************)
(* Sequences                                                               *)
(***************************************************************************)
Min(a, b) == IF a <= b THEN a ELSE b
Max(a, b) == IF a >= b THEN a ELSE b

\* Mutant: the last n, Series.tail(n)
TailN(s, n) == SubSeq(s, Len(s) - Min(n, Len(s)) + 1, Len(s))

\* Series.head(n), list[:n]
HeadN(s, n) == SubSeq(s, 1, Min(n, Len(s)))

RECURSIVE Flatten(_)
Flatten(ss) == IF ss = <<>> THEN <<>> ELSE Head(ss) \o Flatten(Tail(ss))

\* ser[mask]: the cells whose mask is set, in row order
Masked(ser, mask) ==
    Flatten([i \in 1..Len(ser) |-> IF mask[i] THEN <<ser[i]>> ELSE <<>>])

\* int(mask.sum()), failed.shape[0]
CountTrue(mask) == Cardinality({i \in 1..Len(mask) : mask[i]})

\* Series.astype(str).tolist()
AsStrList(s) == [i \in 1..Len(s) |-> AsStr(s[i])]

\* The sample sizes of the report: .head(10) and [:20]
SampleCap == 10
DupSampleCap == 20

(***************************************************************************)
(* Schema: load_config                                                     *)
(***************************************************************************)
\* str.lower() on the type tags of the model
LowerTag(t) ==
    CASE t = "Integer" -> "integer"
      [] t = "FLOAT" -> "float"
      [] OTHER -> t

\* col_types[name] = type on an insertion-ordered dict (a sequence of pairs)
DictSet(d, k, v) ==
    IF \E i \in 1..Len(d) : d[i][1] = k
    THEN [i \in 1..Len(d) |-> IF d[i][1] = k THEN <<k, v>> ELSE d[i]]
    ELSE Append(d, <<k, v>>)

\* An entry of "columns" is a YAML mapping (a record with name and perhaps
\* type), or a bare string, written [str |-> name]; anything else is skipped.
RECURSIVE ColTypes(_, _)
ColTypes(columns, acc) ==
    IF columns = <<>> THEN acc
    ELSE LET c == Head(columns)
             next == IF "name" \in DOMAIN c
                     THEN DictSet(acc, c.name,
                                  LowerTag(IF "type" \in DOMAIN c THEN c.type ELSE "string"))
                     ELSE IF "str" \in DOMAIN c
                     THEN DictSet(acc, c.str, "string")
                     ELSE acc
         IN ColTypes(Tail(columns), next)

\* load_config() on a config file that exists and parses
load_config(cfg) ==
    [col_types |-> ColTypes(cfg.columns, <<>>),
     required |-> cfg.required,
     unique_keys |-> cfg.unique_keys,
     validations |-> cfg.validations]

(***************************************************************************)
(* Type coercion                                                           *)
(***************************************************************************)
\* pd.to_numeric(errors="coerce") yields a number for the cell: an optional
\* sign, digits, and at most one decimal point.
IsNumeric(c) ==
    LET v == Strip(c)
        u == IF v # <<>> /\ Head(v) \in {"+", "-"} THEN Tail(v) ELSE v
        dots == {i \in 1..Len(u) : u[i] = "."}
    IN /\ ~IsNa(c)
       /\ Cardinality(dots) <= 1
       /\ \E i \in 1..Len(u) : u[i] \in Digit
       /\ AllIn(u, Digit \cup {"."})

\* pd.to_datetime(errors="coerce") yields a timestamp for the cell: the
\* model recognises ISO calendar dates.
IsDatetime(c) == ~IsNa(c) /\ Strptime(Strip(c), DefaultDateFmt)

\* coerced.notna() of pd.to_numeric and of pd.to_datetime, row by row
ToNumeric(ser) == [i \in 1..Len(ser) |-> IsNumeric(ser[i])]
ToDatetime(ser) == [i \in 1..Len(ser) |-> IsDatetime(ser[i])]

\* In the except branch nothing was coerced
NotCoerced(ser) == [i \in 1..Len(ser) |-> FALSE]

\* Mutant: a blank cell counts as a failed coercion
FailedMaskCountsBlank(ser, coerced) ==
    [i \in 1..Len(ser) |-> ~coerced[i] /\ ~IsNa(ser[i])]

\* coerced.isna() & ser.notna() & (ser.str.strip() != "")
FailedMask(ser, coerced) ==
    [i \in 1..Len(ser) |-> ~coerced[i] /\ ~IsNa(ser[i]) /\ ~IsBlank(ser[i])]

CoerceResult(ser, mask, success) ==
    LET failed == Masked(ser, mask) IN
    [success |-> IF success = "by_count" THEN Len(failed) = 0 ELSE FALSE,
     failed_count |-> Len(failed),
     sample_values |-> AsStrList(HeadN(failed, SampleCap))]

\* raises: pd.to_datetime raised on this series (the except branch)
coerce_and_check_series(ser, desired_type, raises) ==
    IF desired_type \in {"string", "str", "object"}
    THEN [success |-> TRUE, failed_count |-> 0, sample_values |-> <<>>]
    ELSE IF desired_type \in {"int", "integer"}
    THEN CoerceResult(ser, FailedMask(ser, ToNumeric(ser)), "by_count")
    ELSE IF desired_type \in {"float", "numeric", "number"}
    THEN CoerceResult(ser, FailedMask(ser, ToNumeric(ser)), "by_count")
    ELSE IF desired_type \in {"timestamp", "datetime", "date"}
    THEN IF raises
         THEN CoerceResult(ser, FailedMask(ser, NotCoerced(ser)), "failed")
         ELSE CoerceResult(ser, FailedMask(ser, ToDatetime(ser)), "by_count")
    ELSE [success |-> TRUE, failed_count |-> 0, sample_values |-> <<>>]

(***************************************************************************)
(* The rule engine of validate_csv.  A data frame df is                    *)
(* [columns: the set of column names, rows: the number of rows,            *)
(*  data: for each column its cells in row order].                         *)
(***************************************************************************)
\* Mutant: the loop stops at the first missing column
ExistenceFirstOnly(required, df) ==
    LET missing == SelectSeq(required, LAMBDA c : c \notin df.columns) IN
    IF missing = <<>> THEN <<>>
    ELSE << [expectation |-> "expect_column_to_exist",
             column |-> missing[1],
             success |-> FALSE,
             reason |-> "column missing"] >>

\* 1) required columns exist
ExistenceFindings(required, df) ==
    Flatten([i \in 1..Len(required) |->
        IF required[i] \notin df.columns
        THEN << [expectation |-> "expect_column_to_exist",
                 column |-> required[i],
                 success |-> FALSE,
                 reason |-> "column missing"] >>
        ELSE <<>>])

\* present_required = [c for c in required if c in df.columns]
PresentRequired(required, df) == SelectSeq(required, LAMBDA c : c \in df.columns)

\* df[col].isna() | df[col].str.strip().eq("")
MissingMask(ser) == [i \in 1..Len(ser) |-> IsNa(ser[i]) \/ IsBlank(ser[i])]

\* 2) required columns not null
NullFindings(required, df) ==
    LET present == PresentRequired(required, df) IN
    Flatten([i \in 1..Len(present) |->
        LET ser == df.data[present[i]]
            missing_mask == MissingMask(ser)
            missing_count == CountTrue(missing_mask)
        IN IF missing_count > 0
           THEN << [expectation |-> "expect_column_values_to_not_be_null",
                    column |-> present[i],
                    success |-> FALSE,
                    result |-> [unexpected_count |-> missing_count,
                                sample_unexpected_values |->
                                    AsStrList(HeadN(Masked(ser, missing_mask), SampleCap))]] >>
           ELSE <<>>])

\* Mutant: Series.duplicated(), keep="first": the first occurrence is not marked
DupMaskKeepFirst(ser) ==
    [i \in 1..Len(ser) |-> \E j \in 1..(i - 1) : ser[j] = ser[i]]

\* Series.duplicated(keep=False): every row whose value occurs again
DupMask(ser) ==
    [i \in 1..Len(ser) |-> \E j \in 1..Len(ser) : j # i /\ ser[j] = ser[i]]

\* Series.unique(): the distinct values in first-seen order
Unique(ser) ==
    Masked(ser, [i \in 1..Len(ser) |-> \A j \in 1..(i - 1) : ser[j] # ser[i]])

\* 3) unique keys
UniqueFindings(unique_keys, df) ==
    Flatten([i \in 1..Len(unique_keys) |->
        LET key == unique_keys[i] IN
        IF key \notin df.columns
        THEN << [expectation |-> "expect_column_to_exist",
                 column |-> key,
                 success |-> FALSE,
                 reason |-> "column missing (for uniqueness check)"] >>
        ELSE LET ser == df.data[key]
                 dup_mask == DupMask(ser)
                 dup_count == CountTrue(dup_mask)
             IN IF dup_count > 0
                THEN << [expectation |-> "expect_column_values_to_be_unique",
                         column |-> key,
                         success |-> FALSE,
                         result |-> [duplicate_count |-> dup_count,
                                     sample_duplicate_values |->
                                         HeadN(Unique(Masked(ser, dup_mask)), DupSampleCap)]] >>
                ELSE <<>>])

\* pd.to_datetime(ser, errors="coerce") raises: only on a series that holds
\* text to parse, and only where the environment's pandas does (raises)
ToDatetimeRaises(ser, raises) == raises /\ \E i \in 1..Len(ser) : ~IsNa(ser[i])

\* 4) type coercion checks for the columns declared in the config
TypeFindings(col_types, df, raises) ==
    Flatten([i \in 1..Len(col_types) |->
        LET col == col_types[i][1]
            desired_type == col_types[i][2]
        IN IF col \notin df.columns THEN <<>>
           ELSE LET check == coerce_and_check_series(df.data[col], desired_type,
                                   ToDatetimeRaises(df.data[col], raises)) IN
                IF ~check.success
                THEN << [expectation |-> "expect_column_type_convertible",
                         column |-> col,
                         success |-> FALSE,
                         result |-> [desired_type |-> desired_type,
                                     failed_count |-> check.failed_count,
                                     sample_bad_values |-> check.sample_values]] >>
                ELSE <<>>])

\* isna() | str.strip().eq("") | ~apply(validator)
InvalidMask(ser, valid) ==
    [i \in 1..Len(ser) |-> IsNa(ser[i]) \/ IsBlank(ser[i]) \/ ~valid[i]]

\* df[col].apply(lambda v: validate_..._strict(v, fmt=...))
ApplyEmail(ser) == [i \in 1..Len(ser) |-> validate_email_strict(ser[i])]
ApplyDate(ser, fmt) == [i \in 1..Len(ser) |-> validate_date_strict(ser[i], fmt)]
ApplyTime(ser, fmt) == [i \in 1..Len(ser) |-> validate_time_strict(ser[i], fmt)]

\* Mutant: "if invalid_count >= 0"
StrictFindingAlways(df, col, expectation, mask, fmt) ==
    IF col \notin df.columns THEN <<>>
    ELSE LET invalid_count == CountTrue(mask)
             sample == AsStrList(HeadN(Masked(df.data[col], mask), SampleCap))
         IN << [expectation |-> expectation, column |-> col, success |-> FALSE,
                result |-> [invalid_count |-> invalid_count,
                            sample_invalid_values |-> sample,
                            expected_format |-> fmt]] >>

StrictFinding(df, col, expectation, mask, fmt) ==
    IF col \notin df.columns THEN <<>>
    ELSE LET invalid_count == CountTrue(mask)
             sample == AsStrList(HeadN(Masked(df.data[col], mask), SampleCap))
         IN IF invalid_count = 0 THEN <<>>
            ELSE IF fmt = <<>>
            THEN << [expectation |-> expectation, column |-> col, success |-> FALSE,
                     result |-> [invalid_count |-> invalid_count,
                                 sample_invalid_values |-> sample]] >>
            ELSE << [expectation |-> expectation, column |-> col, success |-> FALSE,
                     result |-> [invalid_count |-> invalid_count,
                                 sample_invalid_values |-> sample,
                                 expected_format |-> fmt]] >>

\* validations_cfg.get("Date", "%Y-%m-%d"), validations_cfg.get("Time", "%H:%M:%S")
DateFmt(validations) ==
    IF "Date" \in DOMAIN validations THEN validations["Date"] ELSE DefaultDateFmt
TimeFmt(validations) ==
    IF "Time" \in DOMAIN validations THEN validations["Time"] ELSE DefaultTimeFmt

\* 5) strict format checks for Email, Date, Time
EmailFindings(df) ==
    StrictFinding(df, "Email", "expect_column_values_to_match_strict_email",
        IF "Email" \in df.columns
        THEN InvalidMask(df.data["Email"], ApplyEmail(df.data["Email"])) ELSE <<>>,
        <<>>)

DateFindings(df, validations) ==
    StrictFinding(df, "Date", "expect_column_values_to_match_strict_date",
        IF "Date" \in df.columns
        THEN InvalidMask(df.data["Date"],
                         ApplyDate(df.data["Date"], DateFmt(validations)))
        ELSE <<>>,
        DateFmt(validations))

TimeFindings(df, validations) ==
    StrictFinding(df, "Time", "expect_column_values_to_match_strict_time",
        IF "Time" \in df.columns
        THEN InvalidMask(df.data["Time"],
                         ApplyTime(df.data["Time"], TimeFmt(validations)))
        ELSE <<>>,
        TimeFmt(validations))

\* Mutant: a missing required column ends the evaluation
FailingShortCircuit(cfg, df, raises) ==
    IF ExistenceFindings(cfg.required, df) # <<>>
    THEN ExistenceFindings(cfg.required, df)
    ELSE    NullFindings(cfg.required, df)
         \o UniqueFindings(cfg.unique_keys, df)
         \o TypeFindings(cfg.col_types, df, raises)
         \o EmailFindings(df)
         \o DateFindings(df, cfg.validations)
         \o TimeFindings(df, cfg.validations)

\* failing, after the five stages
Failing(cfg, df, raises) ==
       ExistenceFindings(cfg.required, df)
    \o NullFindings(cfg.required, df)
    \o UniqueFindings(cfg.unique_keys, df)
    \o TypeFindings(cfg.col_types, df, raises)
    \o EmailFindings(df)
    \o DateFindings(df, cfg.validations)
    \o TimeFindings(df, cfg.validations)

\* The +3 of total_expectations: the strict checks Email, Date, Time
StrictChecks == 3

\* Mutant: the three strict checks are not counted
TotalExpectationsNoStrict(cfg) ==
    Len(cfg.required) + Len(cfg.unique_keys) + Len(cfg.col_types)

TotalExpectations(cfg) ==
    Len(cfg.required) + Len(cfg.unique_keys) + Len(cfg.col_types) + StrictChecks

\* The result dict of validate_csv (meta, two constant paths, is left out)
BuildResult(cfg, df, failing) ==
    LET total_expectations == TotalExpectations(cfg)
        unsuccessful == Len(failing)
        successful == Max(0, total_expectations - unsuccessful)
    IN [success |-> unsuccessful = 0,
        statistics |-> [evaluated_expectations |-> total_expectations,
                        successful_expectations |-> successful,
                        unsuccessful_expectations |-> unsuccessful,
                        rows |-> df.rows],
        results |-> failing]

(***************************************************************************)
(* The program's state                                                     *)
(***************************************************************************)
VARIABLES
    csvFile,       \* the input CSV: [state: "missing" | "empty" | "ok", table]
    cfgFile,       \* configs/ingestion_config.yml: [state: "missing" | "malformed" | "ok", cfg]
    args,          \* the command line: [no_save, raise_on_fail]
    pandasRaises,  \* whether pd.to_datetime raises on a series it has to parse
    vdir,          \* validation_results/: "absent" | "dir" | "notdir"
    reportFile,    \* validation_results/<stem>_result.json:
                   \*   [state: "none" | "dangling" | "file", content]
    diskFree,      \* the chunks the file system can still take
    pc,            \* where the run is
    res,           \* the result dict validate_csv built
    exc,           \* the exception validate_csv raised
    exitCode,      \* the exit code of the process, NoExit before it ends
    seen,          \* what a concurrent reader of the report path last read
    prevRes,       \* the result dict of the run before
    runs,          \* the number of runs started
    fs,            \* the files ingest and the admin service work on: path -> node
    last           \* the last call of ingest, the admin service or the test,
                   \*   with its arguments and its outcome

vars == <<csvFile, cfgFile, args, pandasRaises, vdir, reportFile, diskFree,
          pc, res, exc, exitCode, seen, prevRes, runs, fs, last>>

NoResult == [state |-> "none"]
NoExit == -1

\* The paths ingest and the admin service work on: the source CSV, data/
\* (DATA_DIR, the parent of DEFAULT_DEST), the staged CSV, and the name a copy
\* into the directory data/ gets.  A node is absent, a directory or a file.
Paths == {"in.csv", "data", "data/staged.csv", "data/in.csv"}
Root == "/"
Absent == [kind |-> "absent"]
Dir == [kind |-> "dir"]
File(content) == [kind |-> "file", content |-> content]
NoFiles == [p \in Paths |-> Absent]

\* Nothing has been ingested and nothing has been called
NoCall == [op |-> "none"]
NoIngest == fs = NoFiles /\ last = NoCall

\* pd.read_csv's default missing-value markers among the fields of the model
NaValues == {<<>>, <<"N", "A">>}

\* pd.read_csv(csv_p, dtype=str): every field a string, or NaN
ReadCsv(table) ==
    [columns |-> table.columns,
     rows |-> table.rows,
     data |-> [c \in table.columns |->
                 [i \in 1..table.rows |->
                     IF table.data[c][i] \in NaValues THEN NaN ELSE table.data[c][i]]]]

\* Mutant: the row count keeps what the runs before counted
ValidateOutcomeStamped ==
    IF csvFile.state = "missing" THEN [raised |-> "FileNotFoundError"]
    ELSE IF cfgFile.state = "missing" THEN [raised |-> "FileNotFoundError"]
    ELSE IF cfgFile.state = "malformed" THEN [raised |-> "YAMLError"]
    ELSE IF csvFile.state = "empty" THEN [raised |-> "EmptyDataError"]
    ELSE LET cfg == load_config(cfgFile.cfg)
             df == ReadCsv(csvFile.table)
             built == BuildResult(cfg, df, Failing(cfg, df, pandasRaises))
         IN [raised |-> "none",
             result |-> [built EXCEPT !.statistics.rows = @ + runs - 1]]

\* validate_csv up to "if save_result": what it raises, or the result dict
ValidateOutcome ==
    IF csvFile.state = "missing" THEN [raised |-> "FileNotFoundError"]
    ELSE IF cfgFile.state = "missing" THEN [raised |-> "FileNotFoundError"]
    ELSE IF cfgFile.state = "malformed" THEN [raised |-> "YAMLError"]
    ELSE IF csvFile.state = "empty" THEN [raised |-> "EmptyDataError"]
    ELSE LET cfg == load_config(cfgFile.cfg)
             df == ReadCsv(csvFile.table)
         IN [raised |-> "none",
             result |-> BuildResult(cfg, df, Failing(cfg, df, pandasRaises))]

\* json.dump(result, fo): the chunks written to the file, in order
Serialize(result) ==
    << [key |-> "success", value |-> result.success],
       [key |-> "statistics", value |-> result.statistics] >>
    \o [i \in 1..Len(result.results) |-> [key |-> "results", value |-> result.results[i]]]
    \o << [key |-> "meta"] >>

(***************************************************************************)
(* Actions                                                                 *)
(***************************************************************************)
\* _cli calls validate_csv(args.csv, save_result=not args.no_save): lines 174-310
ValidateCsv ==
    /\ pc = "cli"
    /\ LET out == ValidateOutcome IN
       IF out.raised # "none"
       THEN /\ pc' = "raised"
            /\ exc' = out.raised
            /\ res' = res
       ELSE /\ pc' = IF args.no_save THEN "returned" ELSE "mkdir"
            /\ exc' = exc
            /\ res' = out.result
    /\ UNCHANGED <<csvFile, cfgFile, args, pandasRaises, vdir, reportFile, diskFree,
                   exitCode, seen, prevRes, runs>>
    /\ UNCHANGED <<fs, last>>

\* VALIDATION_DIR.mkdir(parents=True, exist_ok=True)
Mkdir ==
    /\ pc = "mkdir"
    /\ IF vdir = "notdir"
       THEN pc' = "raised" /\ exc' = "FileExistsError" /\ vdir' = vdir
       ELSE pc' = "open" /\ exc' = exc /\ vdir' = "dir"
    /\ UNCHANGED <<csvFile, cfgFile, args, pandasRaises, reportFile, diskFree,
                   res, exitCode, seen, prevRes, runs>>
    /\ UNCHANGED <<fs, last>>

\* out_file.open("w"): creates the file, or truncates the one that is there
OpenReport ==
    /\ pc = "open"
    /\ IF reportFile.state = "dangling"
       THEN /\ pc' = "raised" /\ exc' = "FileNotFoundError"
            /\ UNCHANGED <<reportFile, diskFree>>
       ELSE /\ pc' = "dump" /\ exc' = exc
            /\ reportFile' = [state |-> "file", content |-> <<>>]
            /\ diskFree' = diskFree +
                  (IF reportFile.state = "file" THEN Len(reportFile.content) ELSE 0)
    /\ UNCHANGED <<csvFile, cfgFile, args, pandasRaises, vdir,
                   res, exitCode, seen, prevRes, runs>>
    /\ UNCHANGED <<fs, last>>

\* json.dump writes the next chunk; a full disk raises OSError, and the with
\* block closes the file with what was written
DumpChunk ==
    /\ pc = "dump"
    /\ Len(reportFile.content) < Len(Serialize(res))
    /\ IF diskFree = 0
       THEN /\ pc' = "raised" /\ exc' = "OSError"
            /\ UNCHANGED <<reportFile, diskFree>>
       ELSE /\ pc' = pc /\ exc' = exc
            /\ reportFile' = [reportFile EXCEPT !.content =
                                 Append(@, Serialize(res)[Len(@) + 1])]
            /\ diskFree' = diskFree - 1
    /\ UNCHANGED <<csvFile, cfgFile, args, pandasRaises, vdir,
                   res, exitCode, seen, prevRes, runs>>
    /\ UNCHANGED <<fs, last>>

\* the with block ends, validate_csv returns result
CloseReport ==
    /\ pc = "dump"
    /\ Len(reportFile.content) = Len(Serialize(res))
    /\ pc' = "returned"
    /\ UNCHANGED <<csvFile, cfgFile, args, pandasRaises, vdir, reportFile, diskFree,
                   res, exc, exitCode, seen, prevRes, runs>>
    /\ UNCHANGED <<fs, last>>

\* The exception classes below Exception (SystemExit is a BaseException only)
ExceptionClasses ==
    {"FileNotFoundError", "ValidationError", "YAMLError", "EmptyDataError",
     "FileExistsError", "OSError"}

\* What the try body of _cli raises: validate_csv's exception, ValidationError,
\* or the SystemExit of sys.exit(0 if success else 2)
TryBody ==
    IF pc = "raised" THEN [class |-> exc, code |-> NoExit]
    ELSE IF ~res.success /\ args.raise_on_fail
    THEN [class |-> "ValidationError", code |-> NoExit]
    ELSE [class |-> "SystemExit", code |-> IF res.success THEN 0 ELSE 2]

\* Mutant: the last clause catches everything ("except BaseException")
CliHandlersCatchAll(raised) ==
    IF raised.class = "FileNotFoundError" THEN 3
    ELSE IF raised.class = "ValidationError" THEN 4
    ELSE 5

\* The except clauses of _cli, in order
CliHandlers(raised) ==
    IF raised.class = "FileNotFoundError" THEN 3
    ELSE IF raised.class = "ValidationError" THEN 4
    ELSE IF raised.class \in ExceptionClasses THEN 5
    ELSE raised.code

\* _cli after validate_csv: print_summary, the raise, sys.exit and the handlers
CliExit ==
    /\ pc \in {"returned", "raised"}
    /\ exitCode' = CliHandlers(TryBody)
    /\ pc' = "exited"
    /\ UNCHANGED <<csvFile, cfgFile, args, pandasRaises, vdir, reportFile, diskFree,
                   res, exc, seen, prevRes, runs>>
    /\ UNCHANGED <<fs, last>>

\* The command is run again on the same input
MaxRuns == 2

Rerun ==
    /\ pc = "exited"
    /\ runs < MaxRuns
    /\ runs' = runs + 1
    /\ pc' = "cli"
    /\ prevRes' = res
    /\ res' = NoResult
    /\ exc' = "none"
    /\ exitCode' = NoExit
    /\ UNCHANGED <<csvFile, cfgFile, args, pandasRaises, vdir, reportFile, diskFree, seen>>
    /\ UNCHANGED <<fs, last>>

\* Another process reads the report path
ReaderRead ==
    /\ seen' = IF vdir = "dir" /\ reportFile.state = "file"
               THEN reportFile ELSE [state |-> "none"]
    /\ UNCHANGED <<csvFile, cfgFile, args, pandasRaises, vdir, reportFile, diskFree,
                   pc, res, exc, exitCode, prevRes, runs>>
    /\ UNCHANGED <<fs, last>>

Next ==
    \/ ValidateCsv
    \/ Mkdir
    \/ OpenReport
    \/ DumpChunk
    \/ CloseReport
    \/ CliExit
    \/ Rerun
    \/ ReaderRead

(***************************************************************************)
(* Inputs: the fields, rows, tables and configs the runs are given         *)
(***************************************************************************)
AllCols == {"id", "Email", "Date", "Time"}

RowGood == [c \in AllCols |->
    CASE c = "id" -> <<"1">>
      [] c = "Email" -> <<"a", "@", "b", ".", "c", "o", "m">>
      [] c = "Date" -> <<"2", "0", "2", "4", "-", "0", "2", "-", "2", "9">>
      [] c = "Time" -> <<"1", "2", ":", "0", "0", ":", "0", "0">>]

RowBad == [c \in AllCols |->
    CASE c = "id" -> <<"x">>
      [] c = "Email" -> <<"a", "@", "b">>
      [] c = "Date" -> <<"2", "0", "2", "4", "-", "0", "2", "-", "3", "0">>
      [] c = "Time" -> <<"2", "5", ":", "0", "0", ":", "0", "0">>]

RowNull == [c \in AllCols |->
    CASE c = "id" -> <<>>
      [] c = "Email" -> <<" ">>
      [] c = "Date" -> <<"N", "A">>
      [] c = "Time" -> <<" ", " ">>]

RowOdd == [c \in AllCols |->
    CASE c = "id" -> <<"1", ".", "5">>
      [] c = "Email" -> <<"a", " ", "b", "@", "c", ".", "c", "o", "m">>
      [] c = "Date" -> <<"2", "9", "/", "0", "2", "/", "2", "0", "2", "4">>
      [] c = "Time" -> <<"7", ":", "5">>]

RowPool == {RowGood, RowBad, RowNull, RowOdd}

\* The CSV with these columns and these rows
Table(cols, rows) ==
    [columns |-> cols,
     rows |-> Len(rows),
     data |-> [c \in cols |-> [i \in 1..Len(rows) |-> rows[i][c]]]]

RECURSIVE Spaces(_)
Spaces(k) == IF k = 0 THEN <<>> ELSE <<" ">> \o Spaces(k - 1)

\* Row i of the long table: ids that repeat every DupPeriod rows, an empty or
\* blank Email in two rows of three, a Date valid up to day 29, a Time valid
\* up to second 59
DupPeriod == 21
BigRow(i) == [c \in AllCols |->
    CASE c = "id" -> NumCell(i % DupPeriod)
      [] c = "Email" -> IF i % 3 = 0 THEN <<>>
                        ELSE IF i % 3 = 1 THEN Spaces(1 + (i % 4))
                        ELSE <<"a", "@", "b", ".", "c", "o", "m">>
      [] c = "Date" -> <<"2", "0", "2", "4", "-", "0", "2", "-">> \o TwoDigits(i % 100)
      [] c = "Time" -> <<"1", "2", ":", "0", "0", ":">> \o TwoDigits((i + 40) % 100)]

BigRows == 44
BigTable == Table(AllCols, [i \in 1..BigRows |-> BigRow(i)])

\* The key values A, B, A, C, A
DupTable ==
    [columns |-> {"id"},
     rows |-> 5,
     data |-> [c \in {"id"} |-> << <<"A">>, <<"B">>, <<"A">>, <<"C">>, <<"A">> >>]]

MaxRows == 2
ColSets == {AllCols, {"id"}, {"Email", "Date", "Time"}}

SmallTables ==
    {Table(cols, rows) : cols \in ColSets,
                         rows \in UNION {[1..n -> RowPool] : n \in 0..MaxRows}}

NoValidations == [k \in {} |-> <<>>]
ValidationChoices ==
    {NoValidations,
     [k \in {"Date", "Time"} |->
         IF k = "Date" THEN <<"%d", "/", "%m", "/", "%Y">> ELSE <<"%Q">>]}

RequiredChoices == {<<>>, <<"id">>, <<"cust", "id">>, <<"Email", "Email">>}
UniqueChoices == {<<>>, <<"id">>, <<"cust", "Date">>}
ColumnChoices ==
    {<<>>,
     <<[name |-> "id", type |-> "Integer"], [str |-> "Email"]>>,
     <<[name |-> "id", type |-> "FLOAT"], [name |-> "Date", type |-> "timestamp"],
       [name |-> "id", type |-> "timestamp"]>>,
     <<[name |-> "Date", type |-> "date"], [name |-> "Time", type |-> "boolean"],
       [type |-> "integer"]>>,
     <<[name |-> "Email"], [name |-> "cust", type |-> "integer"]>>}

Configs ==
    {[columns |-> c, required |-> r, unique_keys |-> u, validations |-> v] :
        c \in ColumnChoices, r \in RequiredChoices, u \in UniqueChoices,
        v \in ValidationChoices}

HasTimestamp(cfg) ==
    \E i \in 1..Len(cfg.columns) :
        "type" \in DOMAIN cfg.columns[i] /\ cfg.columns[i].type \in {"timestamp", "date"}

\* The state of a process that has not run yet
Fresh ==
    /\ pc = "cli"
    /\ res = NoResult
    /\ exc = "none"
    /\ exitCode = NoExit
    /\ seen = [state |-> "none"]
    /\ prevRes = NoResult
    /\ runs = 1

(***************************************************************************)
(* Spec: the command line, with the report persisted, read and rewritten   *)
(***************************************************************************)
CliTables ==
    {Table(AllCols, <<>>), Table(AllCols, <<RowGood>>), Table(AllCols, <<RowBad>>),
     Table({"id"}, <<RowGood, RowGood>>)}

CliConfigs ==
    {[columns |-> <<>>, required |-> <<>>, unique_keys |-> <<>>,
      validations |-> NoValidations],
     [columns |-> <<[name |-> "id", type |-> "Integer"]>>, required |-> <<"id">>,
      unique_keys |-> <<"id">>, validations |-> NoValidations],
     [columns |-> <<>>, required |-> <<>>, unique_keys |-> <<>>,
      validations |-> [k \in {"Date"} |-> <<"%Q">>]]}

BigDisk == 40

Init ==
    /\ csvFile \in {[state |-> "missing"], [state |-> "empty"]}
                   \cup {[state |-> "ok", table |-> t] : t \in CliTables}
    /\ cfgFile \in {[state |-> "missing"], [state |-> "malformed"]}
                   \cup {[state |-> "ok", cfg |-> c] : c \in CliConfigs}
    /\ args \in [no_save : BOOLEAN, raise_on_fail : BOOLEAN]
    /\ pandasRaises = FALSE
    /\ vdir \in {"absent", "dir", "notdir"}
    /\ reportFile \in {[state |-> "none"]}
                      \cup (IF vdir = "dir" THEN {[state |-> "dangling"]} ELSE {})
    /\ diskFree \in {0, 1, BigDisk}
    /\ Fresh
    /\ NoIngest

Spec == Init /\ [][Next]_vars

(***************************************************************************)
(* SpecRules: validate_csv(csv, save_result=False) on many schemas and     *)
(* tables                                                                  *)
(***************************************************************************)
InitRules ==
    /\ csvFile \in {[state |-> "ok", table |-> t] : t \in SmallTables \cup {BigTable, DupTable}}
    /\ cfgFile \in {[state |-> "ok", cfg |-> c] : c \in Configs}
    /\ args = [no_save |-> TRUE, raise_on_fail |-> FALSE]
    /\ pandasRaises \in {b \in BOOLEAN : b => HasTimestamp(cfgFile.cfg)}
    /\ vdir = "absent"
    /\ reportFile = [state |-> "none"]
    /\ diskFree = BigDisk
    /\ Fresh
    /\ NoIngest

NextRules == ValidateCsv

SpecRules == InitRules /\ [][NextRules]_vars

(***************************************************************************)
(* SpecStrict: validate_csv(csv, save_result=False) on a one-cell CSV with *)
(* an Email or a Date column, under a schema with the default patterns     *)
(***************************************************************************)
\* The fields of length n over an alphabet
Fields(alphabet, n) == [1..n -> alphabet]

MaxEmailLen == 7
EmailAlphabet == {"a", ".", "@", " "}
EmailCells ==
    UNION {Fields(EmailAlphabet, n) : n \in 0..MaxEmailLen}
    \cup {<<"a", "@", "b", ".", "c", "o", "m">>, <<"a", "@", "b">>,
          <<"a", " ", "b", "@", "c", ".", "c", "o", "m">>,
          <<"a", ".", ".", "b", "@", "c", ".", "c", "o", "m">>, <<"N", "A">>}

YearFields == {<<"2", "0", "2", "4">>, <<"2", "0", "2", "3">>, <<"1", "9", "0", "0">>,
               <<"2", "0", "0", "0">>, <<"0", "0", "0", "0">>, <<"2", "4">>,
               <<"0", "2", "0", "2", "4">>}
MonthFields == {<<"0", "2">>, <<"2">>, <<"1", "2">>, <<"1", "3">>, <<"0", "0">>,
                <<"0", "4">>, <<"4">>}
DayFields == {<<"2", "9">>, <<"3", "0">>, <<"3", "1">>, <<"0", "9">>, <<"9">>,
              <<" ", "9">>, <<"0", "0">>, <<"2", "8">>}
DateSeps == {<<"-">>, <<"/">>}
Pads == {<<>>, <<" ">>}
DateCells ==
    {l \o y \o s \o m \o s \o d \o r :
        l \in Pads, y \in YearFields, s \in DateSeps, m \in MonthFields,
        d \in DayFields, r \in Pads}
    \cup {<<>>, <<" ">>, <<"N", "A">>, <<"n", "a", "n">>}

\* The CSV with the one column col and the one field cell
OneCell(col, cell) == Table({col}, <<[c \in {col} |-> cell]>>)

DefaultConfig ==
    [columns |-> <<>>, required |-> <<>>, unique_keys |-> <<>>,
     validations |-> NoValidations]

InitStrict ==
    /\ csvFile \in {[state |-> "ok", table |-> OneCell("Email", c)] : c \in EmailCells}
                   \cup {[state |-> "ok", table |-> OneCell("Date", c)] : c \in DateCells}
    /\ cfgFile = [state |-> "ok", cfg |-> DefaultConfig]
    /\ args = [no_save |-> TRUE, raise_on_fail |-> FALSE]
    /\ pandasRaises = FALSE
    /\ vdir = "absent"
    /\ reportFile = [state |-> "none"]
    /\ diskFree = BigDisk
    /\ Fresh
    /\ NoIngest

NextStrict == ValidateCsv

SpecStrict == InitStrict /\ [][NextStrict]_vars

(***************************************************************************)
(* SpecTypes: validate_csv(csv, save_result=False) under schemas that      *)
(* declare a type for two columns                                          *)
(***************************************************************************)
TypeTags == {"string", "integer", "float", "timestamp", "int", "number", "date",
             "datetime", "boolean", "Integer"}

TypedPairs == {<<"Email", "id">>, <<"Time", "Date">>}

TypeConfigs ==
    {[columns |-> <<[name |-> cs[1], type |-> t1], [name |-> cs[2], type |-> t2]>>,
      required |-> <<>>, unique_keys |-> <<>>, validations |-> NoValidations] :
        cs \in TypedPairs, t1 \in TypeTags, t2 \in TypeTags}

TypeTables ==
    {Table(AllCols, rows) : rows \in UNION {[1..n -> RowPool] : n \in 0..MaxRows}}

InitTypes ==
    /\ csvFile \in {[state |-> "ok", table |-> t] : t \in TypeTables}
    /\ cfgFile \in {[state |-> "ok", cfg |-> c] : c \in TypeConfigs}
    /\ args = [no_save |-> TRUE, raise_on_fail |-> FALSE]
    /\ pandasRaises \in {b \in BOOLEAN : b => HasTimestamp(cfgFile.cfg)}
    /\ vdir = "absent"
    /\ reportFile = [state |-> "none"]
    /\ diskFree = BigDisk
    /\ Fresh
    /\ NoIngest

NextTypes == ValidateCsv

SpecTypes == InitTypes /\ [][NextTypes]_vars

(***************************************************************************)
(* ingest.py and the admin service: staging a CSV and asking for its       *)
(* validation                                                              *)
(***************************************************************************)
cliVars == <<csvFile, cfgFile, args, pandasRaises, vdir, reportFile, diskFree,
             pc, res, exc, exitCode, seen, prevRes, runs>>

\* Path.parent, os.path.basename and os.path.join on the paths of the model
Parent(p) == IF p \in {"data/staged.csv", "data/in.csv"} THEN "data" ELSE Root
Basename(p) == IF p = "data/staged.csv" THEN "staged.csv"
               ELSE IF p = "data/in.csv" THEN "in.csv" ELSE p
Join(d, name) == IF name = "staged.csv" THEN "data/staged.csv" ELSE "data/in.csv"

Kind(f, p) == IF p = Root THEN "dir" ELSE f[p].kind

\* dest.parent.mkdir(parents=True, exist_ok=True)
MkdirParents(f, p) ==
    IF Kind(f, p) = "dir" THEN [fs |-> f, raised |-> "none"]
    ELSE IF Kind(f, p) = "file" THEN [fs |-> f, raised |-> "FileExistsError"]
    ELSE [fs |-> [f EXCEPT ![p] = Dir], raised |-> "none"]

\* shutil.copy2(src, dst): into dst/basename(src) when dst is a directory;
\* SameFileError when source and target are one file; the source is opened
\* before the target is created or truncated
Copy2(f, src, dst) ==
    IF Kind(f, src) = "dir" THEN [fs |-> f, raised |-> "IsADirectoryError"]
    ELSE LET target == IF Kind(f, dst) = "dir" THEN Join(dst, Basename(src)) ELSE dst IN
         IF target = src THEN [fs |-> f, raised |-> "SameFileError"]
         ELSE [fs |-> [f EXCEPT ![target] = File(f[src].content)], raised |-> "none"]

\* Mutant: the parent directory is made before the source is looked at
copy_to_dest_mkdir_first(f, src, dest) ==
    LET made == MkdirParents(f, Parent(dest)) IN
    IF made.raised # "none" THEN made
    ELSE IF Kind(f, src) = "absent" THEN [fs |-> made.fs, raised |-> "FileNotFoundError"]
    ELSE LET copied == Copy2(made.fs, src, dest) IN
         IF copied.raised # "none" THEN copied
         ELSE [fs |-> copied.fs, raised |-> "none", value |-> dest]

\* copy_to_dest(src, dest): the file system it leaves, and the exception it
\* raises or the value it returns
copy_to_dest(f, src, dest) ==
    IF Kind(f, src) = "absent" THEN [fs |-> f, raised |-> "FileNotFoundError"]
    ELSE LET made == MkdirParents(f, Parent(dest)) IN
         IF made.raised # "none" THEN made
         ELSE LET copied == Copy2(made.fs, src, dest) IN
              IF copied.raised # "none" THEN copied
              ELSE [fs |-> copied.fs, raised |-> "none", value |-> dest]

\* The names the module etl.validate defines
ValidateModule ==
    {"Path", "argparse", "json", "sys", "yaml", "traceback", "re", "datetime",
     "REPO_ROOT", "CONFIG_PATH", "VALIDATION_DIR", "ValidationError", "load_config",
     "_EMAIL_RE", "validate_email_strict", "validate_date_strict",
     "validate_time_strict", "_coerce_and_check_series", "validate_csv",
     "print_summary", "_cli"}

\* module.name: the attribute, or AttributeError
GetAttr(module, name) ==
    IF name \in module THEN [raised |-> "none", value |-> name]
    ELSE [raised |-> "AttributeError"]

\* validate.run_validation(str(path)): the attribute is looked up before
\* anything is called
CallRunValidation(path) == GetAttr(ValidateModule, "run_validation")

\* run_validation_if_requested(dest, do_validate): "except Exception" turns
\* whatever the try body raises into False
run_validation_if_requested(dest, do_validate) ==
    IF ~do_validate THEN TRUE
    ELSE LET called == CallRunValidation(dest) IN
         IF called.raised # "none" THEN FALSE ELSE called.value

\* copy_to_dest is called on its own (test_copy_to_dest)
CopyToDest ==
    /\ \E src \in Paths, dest \in Paths :
          LET out == copy_to_dest(fs, src, dest) IN
          /\ fs' = out.fs
          /\ last' = [op |-> "copy_to_dest", src |-> src, dest |-> dest,
                      before |-> fs, out |-> [r \in DOMAIN out \ {"fs"} |-> out[r]]]
    /\ UNCHANGED cliVars

\* validate.run_validation is called on a staged file (test_validation_sample)
RunValidation ==
    /\ \E path \in Paths :
          /\ Kind(fs, path) = "file"
          /\ last' = [op |-> "run_validation", path |-> path,
                      out |-> CallRunValidation(path)]
    /\ UNCHANGED fs
    /\ UNCHANGED cliVars

\* run_validation_if_requested is called on its own
RunValidationIfRequested ==
    /\ \E dest \in Paths, do_validate \in BOOLEAN :
          last' = [op |-> "run_validation_if_requested", dest |-> dest,
                   do_validate |-> do_validate,
                   value |-> run_validation_if_requested(dest, do_validate)]
    /\ UNCHANGED fs
    /\ UNCHANGED cliVars

\* ingest's main: copy, SystemExit(1) when the copy raises, validation if asked
\* for, SystemExit(2) when it is not ok, else the normal end (exit code 0)
Main ==
    /\ \E src \in Paths, dest \in Paths, validate \in BOOLEAN :
          LET out == copy_to_dest(fs, src, dest)
              ok == run_validation_if_requested(dest, validate)
          IN /\ fs' = out.fs
             /\ last' = [op |-> "main", src |-> src, dest |-> dest,
                         validate |-> validate,
                         exit |-> IF out.raised # "none" THEN 1
                                  ELSE IF ~ok THEN 2 ELSE 0]
    /\ UNCHANGED cliVars

\* POST /validate
validate_endpoint ==
    /\ LET staged == "data/staged.csv"
           called == CallRunValidation(staged)
       IN last' = [op |-> "validate_endpoint",
                   response |->
                      IF Kind(fs, staged) = "absent"
                      THEN [status |-> 400, error |-> "no staged file"]
                      ELSE IF called.raised # "none"
                      THEN [status |-> 500, error |-> called.raised]
                      ELSE [status |-> 200, validation_ok |-> called.value]]
    /\ UNCHANGED fs
    /\ UNCHANGED cliVars

\* The contents a CSV has: a row every rule accepts, or a row with bad cells
StagedTables == {Table(AllCols, <<RowGood>>), Table(AllCols, <<RowBad>>)}

\* The file systems the calls start from: data/ absent, a file or a directory,
\* the CSVs absent or files
FileSystems ==
    {f \in [Paths -> {Absent, Dir} \cup {File(t) : t \in StagedTables}] :
        /\ f["in.csv"].kind # "dir"
        /\ f["data/staged.csv"].kind # "dir"
        /\ f["data/in.csv"].kind # "dir"
        /\ f["data"].kind # "dir" =>
              f["data/staged.csv"] = Absent /\ f["data/in.csv"] = Absent}

IngestConfig ==
    [columns |-> <<[name |-> "id", type |-> "Integer"]>>, required |-> <<"id">>,
     unique_keys |-> <<"id">>, validations |-> NoValidations]

InitIngest ==
    /\ csvFile = [state |-> "missing"]
    /\ cfgFile = [state |-> "ok", cfg |-> IngestConfig]
    /\ args = [no_save |-> TRUE, raise_on_fail |-> FALSE]
    /\ pandasRaises = FALSE
    /\ vdir = "absent"
    /\ reportFile = [state |-> "none"]
    /\ diskFree = BigDisk
    /\ Fresh
    /\ fs \in FileSystems
    /\ last = NoCall

NextIngest ==
    \/ CopyToDest
    \/ RunValidation
    \/ RunValidationIfRequested
    \/ Main
    \/ validate_endpoint

SpecIngest == InitIngest /\ [][NextIngest]_vars

(***************************************************************************)
(* What the claims speak of                                                *)
(***************************************************************************)
HasResult == "statistics" \in DOMAIN res

\* The schema as written in the config file, and the table as read
RawCfg == cfgFile.cfg
TheDf == ReadCsv(csvFile.table)

Range(s) == {s[i] : i \in 1..Len(s)}

\* The column names the config's "columns" declares
DeclaredNames ==
    {RawCfg.columns[i].name : i \in {j \in 1..Len(RawCfg.columns) :
                                        "name" \in DOMAIN RawCfg.columns[j]}}
    \cup {RawCfg.columns[i].str : i \in {j \in 1..Len(RawCfg.columns) :
                                        "name" \notin DOMAIN RawCfg.columns[j]
                                        /\ "str" \in DOMAIN RawCfg.columns[j]}}

FindingsOf(expectation, col) ==
    {i \in 1..Len(res.results) :
        res.results[i].expectation = expectation /\ res.results[i].column = col}

\* C1: successful + unsuccessful = evaluated in every report, where
\* unsuccessful is the number of findings and evaluated is
\* |required| + |unique_keys| + |col_types| + 3: the findings never exceed
\* the evaluated total.
C1_StatisticsAddUp ==
    HasResult =>
        LET st == res.statistics IN
        /\ st.successful_expectations + st.unsuccessful_expectations
              = st.evaluated_expectations
        /\ st.unsuccessful_expectations = Len(res.results)
        /\ st.evaluated_expectations =
              Len(RawCfg.required) + Len(RawCfg.unique_keys)
              + Cardinality(DeclaredNames) + 3
        /\ Len(res.results) <= st.evaluated_expectations

\* A report in which every evaluated expectation failed
C1_Witness ==
    /\ HasResult
    /\ res.statistics.unsuccessful_expectations = res.statistics.evaluated_expectations
    /\ res.statistics.successful_expectations = 0
    /\ Len(res.results) >= 5

\* C2: a required column absent from the dataset gets a column-missing
\* finding and no null-values finding.
C2_MissingRequiredReported ==
    HasResult =>
        \A c \in Range(RawCfg.required) \ TheDf.columns :
            /\ \E i \in FindingsOf("expect_column_to_exist", c) :
                  res.results[i].reason = "column missing"
            /\ FindingsOf("expect_column_values_to_not_be_null", c) = {}

\* A required column is absent while another required column, present, has nulls
C2_Witness ==
    /\ HasResult
    /\ \E c \in Range(RawCfg.required) \ TheDf.columns :
          FindingsOf("expect_column_to_exist", c) # {}
    /\ \E c \in Range(RawCfg.required) \cap TheDf.columns :
          FindingsOf("expect_column_values_to_not_be_null", c) # {}

\* The check class of a finding, 1 to 5, the strict checks as 5, 6, 7
Stage(f) ==
    CASE f.expectation = "expect_column_to_exist" ->
             IF f.reason = "column missing" THEN 1 ELSE 3
      [] f.expectation = "expect_column_values_to_not_be_null" -> 2
      [] f.expectation = "expect_column_values_to_be_unique" -> 3
      [] f.expectation = "expect_column_type_convertible" -> 4
      [] f.expectation = "expect_column_values_to_match_strict_email" -> 5
      [] f.expectation = "expect_column_values_to_match_strict_date" -> 6
      [] f.expectation = "expect_column_values_to_match_strict_time" -> 7

\* Whether a cell fails the coercion to a declared type
TypeFails(t, c) ==
    /\ ~IsNa(c) /\ ~IsBlank(c)
    /\ \/ t \in {"int", "integer", "float", "numeric", "number"} /\ ~IsNumeric(c)
       \/ t \in {"timestamp", "datetime", "date"} /\ (pandasRaises \/ ~IsDatetime(c))

SomeCell(col, P(_)) == \E i \in 1..TheDf.rows : P(TheDf.data[col][i])

\* The violations the dataset holds, each by its own rule alone
Violations ==
    LET cols == TheDf.columns
        types == load_config(RawCfg).col_types
    IN {<<"expect_column_to_exist", c>> :
           c \in (Range(RawCfg.required) \cup Range(RawCfg.unique_keys)) \ cols}
       \cup {<<"expect_column_values_to_not_be_null", c>> :
           c \in {d \in Range(RawCfg.required) \cap cols :
                     SomeCell(d, LAMBDA v : IsNa(v) \/ IsBlank(v))}}
       \cup {<<"expect_column_values_to_be_unique", c>> :
           c \in {d \in Range(RawCfg.unique_keys) \cap cols :
                     \E i, j \in 1..TheDf.rows :
                         i # j /\ TheDf.data[d][i] = TheDf.data[d][j]}}
       \cup {<<"expect_column_type_convertible", types[k][1]>> :
           k \in {n \in 1..Len(types) :
                     /\ types[n][1] \in cols
                     /\ \/ SomeCell(types[n][1], LAMBDA v : TypeFails(types[n][2], v))
                        \/ /\ types[n][2] \in {"timestamp", "datetime", "date"}
                           /\ pandasRaises
                           /\ SomeCell(types[n][1], LAMBDA v : ~IsNa(v))}}
       \cup {<<"expect_column_values_to_match_strict_email", c>> :
           c \in {d \in {"Email"} \cap cols :
                     SomeCell(d, LAMBDA v : ~validate_email_strict(v))}}
       \cup {<<"expect_column_values_to_match_strict_date", c>> :
           c \in {d \in {"Date"} \cap cols :
                     SomeCell(d, LAMBDA v :
                         ~validate_date_strict(v, DateFmt(RawCfg.validations)))}}
       \cup {<<"expect_column_values_to_match_strict_time", c>> :
           c \in {d \in {"Time"} \cap cols :
                     SomeCell(d, LAMBDA v :
                         ~validate_time_strict(v, TimeFmt(RawCfg.validations)))}}

\* C3: every check class runs whatever the earlier ones found (the report
\* holds a finding for exactly the violations the dataset holds), and the
\* findings are ordered by check class: existence, null values, uniqueness,
\* type coercion, then Email, Date, Time.
C3_AllChecksRunInOrder ==
    HasResult =>
        /\ {<<res.results[i].expectation, res.results[i].column>> :
               i \in 1..Len(res.results)} = Violations
        /\ \A i, j \in 1..Len(res.results) :
               i < j => Stage(res.results[i]) <= Stage(res.results[j])

\* A report with a finding of every check class
C3_Witness ==
    /\ HasResult
    /\ \A k \in 1..7 : \E i \in 1..Len(res.results) : Stage(res.results[i]) = k

\* The rows of a column whose value occurs in at least two rows, the values
\* they hold, and the first row of a value
DupRows(ser) ==
    {i \in 1..Len(ser) : Cardinality({j \in 1..Len(ser) : ser[j] = ser[i]}) >= 2}
DupVals(ser) == {ser[i] : i \in DupRows(ser)}
FirstRow(ser, v) == CHOOSE i \in 1..Len(ser) :
    ser[i] = v /\ \A j \in 1..(i - 1) : ser[j] # v

\* C4: for a unique-key column that is present, the duplicate count is the
\* number of rows whose value occurs at least twice (the first occurrence
\* included), there is a duplicate finding iff that count is positive, and
\* the samples are the distinct duplicated values in first-seen order, at
\* most 20 of them; the keys A, B, A, C, A give count 3 and samples [A].
C4_DuplicatesCounted ==
    HasResult =>
        /\ \A k \in Range(RawCfg.unique_keys) \cap TheDf.columns :
              LET ser == TheDf.data[k]
                  found == FindingsOf("expect_column_values_to_be_unique", k)
              IN /\ (found # {}) <=> (Cardinality(DupRows(ser)) > 0)
                 /\ \A i \in found :
                       LET r == res.results[i].result
                           smp == r.sample_duplicate_values
                       IN /\ r.duplicate_count = Cardinality(DupRows(ser))
                          /\ Len(smp) = Min(20, Cardinality(DupVals(ser)))
                          /\ Range(smp) \subseteq DupVals(ser)
                          /\ \A a, b \in 1..Len(smp) :
                                a < b => FirstRow(ser, smp[a]) < FirstRow(ser, smp[b])
                          /\ \A v \in DupVals(ser) \ Range(smp) :
                                \A a \in 1..Len(smp) :
                                    FirstRow(ser, smp[a]) < FirstRow(ser, v)
        /\ (csvFile.table = DupTable /\ "id" \in Range(RawCfg.unique_keys)) =>
              \E i \in FindingsOf("expect_column_values_to_be_unique", "id") :
                  /\ res.results[i].result.duplicate_count = 3
                  /\ res.results[i].result.sample_duplicate_values = << <<"A">> >>

\* The keys A, B, A, C, A have been checked for uniqueness
C4_Witness ==
    /\ HasResult
    /\ csvFile.table = DupTable
    /\ \E i \in FindingsOf("expect_column_values_to_be_unique", "id") :
          res.results[i].result.duplicate_count = 3

\* The count and the samples of a finding of the null, type or strict checks
CountOf(f) ==
    CASE f.expectation = "expect_column_values_to_not_be_null" -> f.result.unexpected_count
      [] f.expectation = "expect_column_type_convertible" -> f.result.failed_count
      [] OTHER -> f.result.invalid_count
SampleOf(f) ==
    CASE f.expectation = "expect_column_values_to_not_be_null" ->
             f.result.sample_unexpected_values
      [] f.expectation = "expect_column_type_convertible" -> f.result.sample_bad_values
      [] OTHER -> f.result.sample_invalid_values

\* The rows of the finding's column whose cell fails the finding's check
FailingRows(f) ==
    {i \in 1..TheDf.rows :
        LET c == TheDf.data[f.column][i] IN
        CASE f.expectation = "expect_column_values_to_not_be_null" -> IsNa(c) \/ IsBlank(c)
          [] f.expectation = "expect_column_type_convertible" ->
                 TypeFails(f.result.desired_type, c)
          [] f.expectation = "expect_column_values_to_match_strict_email" ->
                 ~validate_email_strict(c)
          [] f.expectation = "expect_column_values_to_match_strict_date" ->
                 ~validate_date_strict(c, DateFmt(RawCfg.validations))
          [] f.expectation = "expect_column_values_to_match_strict_time" ->
                 ~validate_time_strict(c, TimeFmt(RawCfg.validations))}

\* The a-th row of a set of rows, in row order
NthRow(rows, a) == CHOOSE i \in rows : Cardinality({j \in rows : j < i}) = a - 1

SampledKinds ==
    {"expect_column_values_to_not_be_null", "expect_column_type_convertible",
     "expect_column_values_to_match_strict_email",
     "expect_column_values_to_match_strict_date",
     "expect_column_values_to_match_strict_time"}

\* C5: in a finding of the null-values, type-coercion or strict-format
\* checks the count is the full number of failing cells and the samples are
\* the first 10 failing cells in row order (all of them when 10 or fewer
\* fail), each as astype(str) renders it.
C5_SamplesAreFirstTen ==
    HasResult =>
        \A i \in 1..Len(res.results) :
            res.results[i].expectation \in SampledKinds =>
                LET f == res.results[i]
                    rows == FailingRows(f)
                IN /\ CountOf(f) = Cardinality(rows)
                   /\ Len(SampleOf(f)) = Min(10, Cardinality(rows))
                   /\ \A a \in 1..Len(SampleOf(f)) :
                         SampleOf(f)[a] = AsStr(TheDf.data[f.column][NthRow(rows, a)])

\* A null-values, a type-coercion and a strict-format finding, each with more
\* than 10 failing cells and 10 samples
C5_Witness ==
    /\ HasResult
    /\ \A kind \in {"expect_column_values_to_not_be_null",
                    "expect_column_type_convertible",
                    "expect_column_values_to_match_strict_time"} :
          \E i \in 1..Len(res.results) :
              /\ res.results[i].expectation = kind
              /\ CountOf(res.results[i]) > 10
              /\ Len(SampleOf(res.results[i])) = 10

\* C6: on a dataset with zero rows every finding is a column-missing finding
\* for a required or unique-key column the dataset lacks, and rows is 0.
C6_NoRowsNoFalseFindings ==
    (HasResult /\ csvFile.table.rows = 0) =>
        /\ res.statistics.rows = 0
        /\ \A i \in 1..Len(res.results) :
              /\ res.results[i].expectation = "expect_column_to_exist"
              /\ res.results[i].column \notin csvFile.table.columns
              /\ res.results[i].column \in
                    Range(RawCfg.required) \cup Range(RawCfg.unique_keys)

\* A table with no rows and every column, a typed timestamp column and a
\* pandas that raises included, has been validated with a column missing
C6_Witness ==
    /\ HasResult
    /\ csvFile.table.rows = 0
    /\ csvFile.table.columns = AllCols
    /\ pandasRaises
    /\ Len(res.results) >= 2

\* The exit code that reports the validation result alone
ValidationExit == IF res.success THEN 0 ELSE IF args.raise_on_fail THEN 4 ELSE 2

\* C7: a failure to persist the report leaves the validation result as it
\* is: validate_csv still returns the report it built, and the run ends
\* with the outcome of the validation.
C7_PersistFailureKeepsReport ==
    /\ HasResult => pc # "raised"
    /\ (HasResult /\ pc = "exited") => exitCode = ValidationExit

\* C8: a reader of the report path sees no file, the complete report of the
\* run before, or the complete report of this run, never a part of one.
C8_ReaderSeesWholeReport ==
    seen.state = "file" =>
        \/ HasResult /\ seen.content = Serialize(res)
        \/ "statistics" \in DOMAIN prevRes /\ seen.content = Serialize(prevRes)

\* C9 as claimed: 3 exactly for a missing input file, 5 for every other
\* error, 0, 2 and 4 by the validation result.
C9_ExitCodesAsClaimed ==
    pc = "exited" =>
        exitCode = IF csvFile.state = "missing" THEN 3
                   ELSE IF exc # "none" THEN 5
                   ELSE ValidationExit

\* What makes validate_csv raise FileNotFoundError: the input file is
\* missing, the config file is missing, or the report path does not resolve
NotFoundCause ==
    \/ csvFile.state = "missing"
    \/ cfgFile.state = "missing"
    \/ /\ csvFile.state = "ok" /\ cfgFile.state = "ok"
       /\ ~args.no_save /\ vdir = "dir" /\ reportFile.state = "dangling"

\* C9, amended: the exit code is 3 whenever validate_csv raises
\* FileNotFoundError (input file, config file or report path not found),
\* 5 for every other exception, and 0, 2 or 4 by the validation result when
\* validate_csv returns; the SystemExit of sys.exit is never turned into 5.
C9_ExitCodes ==
    pc = "exited" =>
        /\ exitCode \in {0, 2, 3, 4, 5}
        /\ (exc = "FileNotFoundError") <=> NotFoundCause
        /\ exitCode = IF NotFoundCause THEN 3
                      ELSE IF exc # "none" THEN 5
                      ELSE ValidationExit

\* The config file is missing, the input is there, and the run ended with 3
C9_Witness ==
    /\ pc = "exited"
    /\ csvFile.state = "ok"
    /\ cfgFile.state = "missing"
    /\ exitCode = 3

\* A strict check is given a pattern strptime rejects, and has a cell to parse
MalformedPatternUsed ==
    /\ HasResult
    /\ \/ /\ "Date" \in TheDf.columns
          /\ BadFormat(DateFmt(RawCfg.validations))
          /\ SomeCell("Date", LAMBDA v : ~IsNa(v) /\ ~IsBlank(v))
       \/ /\ "Time" \in TheDf.columns
          /\ BadFormat(TimeFmt(RawCfg.validations))
          /\ SomeCell("Time", LAMBDA v : ~IsNa(v) /\ ~IsBlank(v))

\* C10: a missing input or config file ends as a fatal input error (3), a
\* malformed strict-format pattern as an internal error (5) and never as
\* findings, and invalid data as a failed validation (2 or 4).
C10_OutcomeByCause ==
    pc = "exited" =>
        /\ (csvFile.state = "missing" \/ cfgFile.state = "missing") => exitCode = 3
        /\ MalformedPatternUsed => exitCode = 5
        /\ (HasResult /\ exc = "none" /\ ~res.success /\ ~MalformedPatternUsed) =>
              exitCode \in {2, 4}


\* The file at path p of file system f satisfies every rule of the schema
SatisfiesSchema(f, p) ==
    /\ Kind(f, p) = "file"
    /\ cfgFile.state = "ok"
    /\ Failing(load_config(cfgFile.cfg), ReadCsv(f[p].content), pandasRaises) = <<>>

\* C11: on a staged CSV that satisfies every rule of the schema,
\* validate.run_validation returns True, run_validation_if_requested(dest, True)
\* returns True, ingest's main does not exit 2 but ends successfully, and
\* POST /validate answers validation_ok true and no error.
C11_CleanFileValidates ==
    /\ (last.op = "run_validation" /\ SatisfiesSchema(fs, last.path)) =>
          (last.out.raised = "none" /\ last.out.value = TRUE)
    /\ (last.op = "run_validation_if_requested" /\ last.do_validate
          /\ SatisfiesSchema(fs, last.dest)) => last.value = TRUE
    /\ (last.op = "main" /\ last.validate /\ last.exit # 1
          /\ SatisfiesSchema(fs, last.dest)) => last.exit = 0
    /\ (last.op = "validate_endpoint" /\ SatisfiesSchema(fs, "data/staged.csv")) =>
          (last.response.status = 200 /\ last.response.validation_ok = TRUE)

PlainDest(f, src, dest) ==
    /\ dest # src
    /\ Kind(f, dest) # "dir"
    /\ Kind(f, Parent(dest)) # "file"

TheCell(col) == csvFile.table.data[col][1]

\* The run is one on the one-cell CSV with column col, and has its report
OneCellRun(col) ==
    HasResult /\ csvFile.table.columns = {col} /\ csvFile.table.rows = 1

\* The strict check named by expectation has no finding: it accepted the cell
Accepted(expectation) ==
    \A i \in 1..Len(res.results) : res.results[i].expectation # expectation

Positions(t, ch) == {i \in 1..Len(t) : t[i] = ch}

\* Two dots in a row
ConsecutiveDots(t) == \E i \in 1..(Len(t) - 1) : t[i] = "." /\ t[i + 1] = "."

\* local-part@domain.tld: one "@" with a local part before it and, after it, a
\* domain, a dot and a top-level domain of at least two letters; no white
\* space and no two dots in a row anywhere
EmailForm(t) ==
    /\ Cardinality(Positions(t, "@")) = 1
    /\ Positions(t, " ") = {}
    /\ ~ConsecutiveDots(t)
    /\ LET a == CHOOSE i \in Positions(t, "@") : TRUE IN
       /\ a >= 2
       /\ AllIn(SubSeq(t, 1, a - 1), EmailLocalChars)
       /\ \E p \in (a + 2)..Len(t) :
             /\ t[p] = "."
             /\ AllIn(SubSeq(t, a + 1, p - 1), EmailDomainChars)
             /\ Len(t) - p >= 2
             /\ AllIn(SubSeq(t, p + 1, Len(t)), Alpha)

\* C13: the strict email check accepts a cell iff it is non-null, non-blank
\* and of the form local-part@domain.tld without embedded white space and with
\* a top-level domain of at least two letters; "a@b.com" is valid, "a@b" and
\* "a b@c.com" are not, and an address with two dots in a row, without "@" or
\* without a top-level domain is rejected.
C13_StrictEmail ==
    OneCellRun("Email") =>
        LET cell == TheCell("Email")
            t == Strip(cell)
            ok == Accepted("expect_column_values_to_match_strict_email")
        IN /\ ok <=> (cell \notin NaValues /\ t # <<>> /\ EmailForm(t))
           /\ cell = <<"a", "@", "b", ".", "c", "o", "m">> => ok
           /\ cell \in {<<"a", "@", "b">>,
                        <<"a", " ", "b", "@", "c", ".", "c", "o", "m">>} => ~ok
           /\ (ConsecutiveDots(t) \/ Positions(t, "@") = {}) => ~ok

\* YYYY-MM-DD: four digits, "-", two digits, "-", two digits, naming a day
\* the calendar has
DateForm(t) ==
    /\ Len(t) = 10
    /\ t[5] = "-" /\ t[8] = "-"
    /\ AllIn(SubSeq(t, 1, 4) \o SubSeq(t, 6, 7) \o SubSeq(t, 9, 10), Digit)
    /\ LET y == IntOf(SubSeq(t, 1, 4))
           m == IntOf(SubSeq(t, 6, 7))
           d == IntOf(SubSeq(t, 9, 10))
       IN y >= 1 /\ m \in 1..12 /\ d \in 1..DaysIn(y, m)

\* C14: with the default pattern the strict Date check accepts a cell iff it
\* exactly matches YYYY-MM-DD (four-digit year, two-digit month, two-digit
\* day) and names an existing calendar date; "2024-02-29" is valid,
\* "2024-02-30" and "24-02-29" are not, and neither is a value without zero
\* padding such as "2024-2-9" nor a null or blank cell.
C14_StrictDate ==
    OneCellRun("Date") =>
        LET cell == TheCell("Date")
            t == Strip(cell)
            ok == Accepted("expect_column_values_to_match_strict_date")
        IN ok <=> (cell \notin NaValues /\ t # <<>> /\ DateForm(t))

FourTags == {"string", "integer", "float", "timestamp"}
CheckedTags == {"int", "integer", "float", "numeric", "number",
                "timestamp", "datetime", "date"}

\* The rows of column col whose cell is neither null nor blank and fails the
\* coercion to tag
FailedRows(col, tag) == {i \in 1..TheDf.rows : TypeFails(tag, TheDf.data[col][i])}

\* The type findings on column col count exactly the cells that are neither
\* null nor blank and fail the coercion, and sample no null or blank cell
CountsNoAbsentCell(col, tag) ==
    \A i \in FindingsOf("expect_column_type_convertible", col) :
        /\ res.results[i].result.failed_count = Cardinality(FailedRows(col, tag))
        /\ \A k \in 1..Len(res.results[i].result.sample_bad_values) :
              \E r \in FailedRows(col, tag) :
                  res.results[i].result.sample_bad_values[k] = TheDf.data[col][r]

\* The column declarations of the schema, when each is {name, type}
TypedDecls ==
    {n \in 1..Len(RawCfg.columns) :
        DOMAIN RawCfg.columns[n] = {"name", "type"}}

\* C16 as claimed: a tag other than string, integer, float, timestamp (for
\* example int, number, date, datetime, boolean) is accepted by the schema
\* loader and its column never gets a type finding; under the four tags a
\* null or blank cell is never counted as a coercion failure.  Stated for the
\* runs in which pd.to_datetime does not raise.
C16_UnknownTagsAsClaimed ==
    (HasResult /\ ~pandasRaises) =>
        \A n \in TypedDecls :
            LET col == RawCfg.columns[n].name
                tag == LowerTag(RawCfg.columns[n].type)
            IN /\ <<col, tag>> \in Range(load_config(RawCfg).col_types)
               /\ tag \notin FourTags =>
                     FindingsOf("expect_column_type_convertible", col) = {}
               /\ tag \in FourTags => CountsNoAbsentCell(col, tag)

\* C16: a tag that, in lower case, is none of string, str, object, int,
\* integer, float, numeric, number, timestamp, datetime, date (for example
\* boolean) is accepted by the schema loader and its column never gets a type
\* finding, whatever the cells hold (nor does a column tagged string, str or
\* object); under the tags int, integer, float, numeric, number, timestamp,
\* datetime, date a null or blank cell is never counted as a coercion failure.
C16_UnknownTags ==
    HasResult =>
        \A n \in TypedDecls :
            LET col == RawCfg.columns[n].name
                tag == LowerTag(RawCfg.columns[n].type)
            IN /\ <<col, tag>> \in Range(load_config(RawCfg).col_types)
               /\ tag \notin CheckedTags =>
                     FindingsOf("expect_column_type_convertible", col) = {}
               /\ tag \in CheckedTags => CountsNoAbsentCell(col, tag)

\* A column tagged boolean whose cells are no booleans gets no finding, next to
\* a column tagged integer with a null cell and a failing cell, which gets a
\* finding that counts the failing cell alone
C16_Witness ==
    /\ HasResult
    /\ RawCfg.columns = <<[name |-> "Email", type |-> "boolean"],
                          [name |-> "id", type |-> "integer"]>>
    /\ TheDf.rows = 2
    /\ \E i \in 1..2 : ~IsNa(TheDf.data["Email"][i]) /\ ~IsBlank(TheDf.data["Email"][i])
    /\ \E i \in 1..2 : IsBlank(TheDf.data["Email"][i])
    /\ \E i \in 1..2 : IsNa(TheDf.data["id"][i])
    /\ FindingsOf("expect_column_type_convertible", "Email") = {}
    /\ \E i \in FindingsOf("expect_column_type_convertible", "id") :
          res.results[i].result.failed_count = 1

=============================================================================
